---- MODULE Spec2Model ----
(***************************************************************************)
(* qop: snapshot store and patch engine (src/src/main.rs).                 *)
(*                                                                         *)
(* Text is a sequence of one-character strings.  File contents, patch      *)
(* payloads and section keys are all text, so the conversions the code     *)
(* performs (str::lines, join("\n"), usize::to_string, str::parse, the     *)
(* "+"/"-" prefixing) are computed here character by character.            *)
(***************************************************************************)
EXTENDS Naturals, Sequences, FiniteSets

VARIABLES
    stored,       \* ./.qop/store/<path>: content copied by the last snapshot
    working,      \* <path>: content of the tracked file in the working tree
    index,        \* index.files of ./.qop/index.toml: path -> hash
    patch,        \* the patch text last written by diff / reverse, or crafted
    patchKind,    \* "none" | "diff" | "reversed" | "crafted"
    diffOld,      \* diff: the "old" side TextDiff::from_lines was given, per path
    diffNew,      \* diff: the "new" side, per path
    diffops,      \* diff: diff.ops() per path
    actions,      \* apply: the Vec<Action> built for each file of the patch
    applyIn,      \* apply: file_content read at line 205, per path
    status,       \* outcome of the last invocation
    fs,           \* snapshot: the directory tree under the root "."
    pre,          \* snapshot: the tree as it was when the running snapshot began
    frames,       \* snapshot: the call stack of process_files
    ignore_stack, \* snapshot: the &mut Vec<Vec<String>> threaded through the walk
    snapPc,       \* snapshot: "idle" | "walking" | "done" | "error"
    runs          \* snapshot: invocations of init so far

patchVars == <<stored, working, index, patch, patchKind, diffOld, diffNew,
               diffops, actions, applyIn, status>>
snapVars == <<fs, pre, frames, ignore_stack, snapPc, runs>>
vars == <<patchVars, snapVars>>

---------------------------------------------------------------------------
(* Bounds *)

MaxLen == 6        \* characters in a tracked file (one-file specification)
MaxLenMulti == 2   \* characters in a tracked file (two-file specification)
MaxApplyLen == 3   \* characters in a file a crafted patch is applied to
MaxAnchor == 10    \* largest anchor of a crafted patch section
MaxSections == 2   \* sections of a crafted patch
MaxDepth == 7      \* components of the longest path the file system accepts
MaxRuns == 2       \* snapshots taken in a row

---------------------------------------------------------------------------
(* Text *)

NL == "\n"
Chars == {"a", NL}

Text(n) == UNION {[1..k -> Chars] : k \in 0..n}

RECURSIVE Concat(_)
\* [String]::concat
Concat(ss) == IF ss = <<>> THEN <<>> ELSE Head(ss) \o Concat(Tail(ss))

RECURSIVE Join(_)
\* [String]::join("\n")
Join(ss) ==
    IF ss = <<>> THEN <<>>
    ELSE IF Len(ss) = 1 THEN ss[1]
    ELSE ss[1] \o <<NL>> \o Join(Tail(ss))

\* str::ends_with("\n")
EndsWithNewline(s) == Len(s) > 0 /\ s[Len(s)] = NL

\* str::starts_with(c)
StartsWith(s, c) == Len(s) > 0 /\ s[1] = c

RECURSIVE TokenizeLines(_)
\* The lines of a text with their terminators kept: what TextDiff::from_lines
\* compares, and what str::lines splits before it strips the terminator.
TokenizeLines(s) ==
    IF s = <<>> THEN <<>>
    ELSE LET ends == {i \in 1..Len(s) : s[i] = NL}
             k == IF ends = {} THEN Len(s)
                  ELSE CHOOSE i \in ends : \A j \in ends : i <= j
         IN <<SubSeq(s, 1, k)>> \o TokenizeLines(SubSeq(s, k + 1, Len(s)))

\* One line without its terminator.
StripNewline(t) == IF EndsWithNewline(t) THEN SubSeq(t, 1, Len(t) - 1) ELSE t

\* str::lines
StrLines(s) ==
    LET toks == TokenizeLines(s)
    IN [i \in 1..Len(toks) |-> StripNewline(toks[i])]

\* similar::Change's Display: the line, and a newline when it has none.
ChangeToString(t) == IF EndsWithNewline(t) THEN t ELSE t \o <<NL>>

---------------------------------------------------------------------------
(* Section keys: usize::to_string, str::parse::<usize>, String's Ord *)

DigitChars == <<"0", "1", "2", "3", "4", "5", "6", "7", "8", "9">>

DigitVal(c) == (CHOOSE i \in 1..10 : DigitChars[i] = c) - 1

RECURSIVE UsizeToString(_)
UsizeToString(n) ==
    IF n < 10 THEN <<DigitChars[n + 1]>>
    ELSE UsizeToString(n \div 10) \o <<DigitChars[(n % 10) + 1]>>

RECURSIVE ParseUsize(_)
ParseUsize(s) ==
    IF Len(s) = 1 THEN DigitVal(s[1])
    ELSE ParseUsize(SubSeq(s, 1, Len(s) - 1)) * 10 + DigitVal(s[Len(s)])

RECURSIVE StringLess(_, _)
\* String's Ord: byte-wise lexicographic, a proper prefix first.
StringLess(s, t) ==
    IF t = <<>> THEN FALSE
    ELSE IF s = <<>> THEN TRUE
    ELSE IF s[1] # t[1] THEN DigitVal(s[1]) < DigitVal(t[1])
    ELSE StringLess(Tail(s), Tail(t))

RECURSIVE BTreeKeys(_)
\* The keys of a BTreeMap<String, _> in iteration order.
BTreeKeys(keys) ==
    IF keys = {} THEN <<>>
    ELSE LET k == CHOOSE x \in keys : \A y \in keys \ {x} : StringLess(x, y)
         IN <<k>> \o BTreeKeys(keys \ {k})

\* BTreeMap::insert / HashMap::insert: a later value replaces an earlier one.
MapInsert(m, k, v) == [x \in DOMAIN m \cup {k} |-> IF x = k THEN v ELSE m[x]]

EmptyMap == [x \in {} |-> x]

---------------------------------------------------------------------------
(* similar::TextDiff::from_lines(old, new).ops()                            *)
(*                                                                         *)
(* The crate's Myers diff returns a shortest edit script over the lines    *)
(* (terminators included), passed through its Replace hook: matching runs  *)
(* are Equal operations and the lines between two runs form one Delete,    *)
(* one Insert or one Replace.  Which of several shortest scripts is        *)
(* returned is not part of the crate's contract, so every one of them is   *)
(* a possible outcome here.                                                *)

Max(a, b) == IF a >= b THEN a ELSE b
Min(a, b) == IF a <= b THEN a ELSE b

RECURSIVE LcsCells(_, _, _, _)
\* One row of the LCS table, cells j..Len(b)+1, from the row below it.
LcsCells(x, b, below, j) ==
    IF j > Len(b) THEN <<0>>
    ELSE LET rest == LcsCells(x, b, below, j + 1)
         IN <<IF x = b[j] THEN 1 + below[j + 1] ELSE Max(below[j], rest[1])>> \o rest

RECURSIVE LcsRows(_, _, _)
\* Rows i..Len(a)+1 of the table: row[i][j] is the LCS length of a[i..] and b[j..].
LcsRows(a, b, i) ==
    IF i > Len(a) THEN <<[j \in 1..Len(b) + 1 |-> 0]>>
    ELSE LET rest == LcsRows(a, b, i + 1)
         IN <<LcsCells(a[i], b, rest[1], 1)>> \o rest

RECURSIVE Alignments(_, _, _, _, _)
\* Every longest matching of a[i..] with b[j..], as a sequence of <<i, j>>.
Alignments(a, b, T, i, j) ==
    IF i > Len(a) \/ j > Len(b) THEN {<<>>}
    ELSE (IF a[i] = b[j] /\ T[i][j] = 1 + T[i + 1][j + 1]
          THEN {<<<<i, j>>>> \o al : al \in Alignments(a, b, T, i + 1, j + 1)}
          ELSE {})
         \cup (IF T[i + 1][j] = T[i][j] THEN Alignments(a, b, T, i + 1, j) ELSE {})
         \cup (IF T[i][j + 1] = T[i][j] THEN Alignments(a, b, T, i, j + 1) ELSE {})

\* DiffOp, with the 0-based indices of old_range() and new_range().
DiffOp(tag, oi, ol, ni, nl) ==
    [tag |-> tag, old_index |-> oi, old_len |-> ol, new_index |-> ni, new_len |-> nl]

\* The operation for the unmatched lines old[oi..oe) and new[ni..ne).
GapOps(oi, oe, ni, ne) ==
    IF oe > oi /\ ne > ni THEN <<DiffOp("Replace", oi, oe - oi, ni, ne - ni)>>
    ELSE IF oe > oi THEN <<DiffOp("Delete", oi, oe - oi, ni, 0)>>
    ELSE IF ne > ni THEN <<DiffOp("Insert", oi, 0, ni, ne - ni)>>
    ELSE <<>>

RECURSIVE RunLength(_)
\* How many leading pairs of an alignment are consecutive on both sides.
RunLength(al) ==
    IF Len(al) < 2 THEN Len(al)
    ELSE IF al[2] = <<al[1][1] + 1, al[1][2] + 1>> THEN 1 + RunLength(Tail(al))
    ELSE 1

RECURSIVE OpsFrom(_, _, _, _, _)
\* The operations of an alignment, from old line oi and new line ni (0-based).
OpsFrom(al, oi, ni, m, n) ==
    IF al = <<>> THEN GapOps(oi, m, ni, n)
    ELSE LET r == RunLength(al)
             mo == al[1][1] - 1
             mn == al[1][2] - 1
         IN GapOps(oi, mo, ni, mn)
            \o <<DiffOp("Equal", mo, r, mn, r)>>
            \o OpsFrom(SubSeq(al, r + 1, Len(al)), mo + r, mn + r, m, n)

\* diff.ops(): the operation lists TextDiff::from_lines(old, new) may return.
TextDiffOps(old, new) ==
    LET a == TokenizeLines(old)
        b == TokenizeLines(new)
        T == LcsRows(a, b, 1)
    IN {OpsFrom(al, 0, 0, Len(a), Len(b)) : al \in Alignments(a, b, T, 1, 1)}

---------------------------------------------------------------------------
(* diff *)

\* hex::encode(Sha256::digest(content)): a fixed function of the content;
\* distinct contents are taken to have distinct digests.
Hash(content) == <<"sha256", content>>

\* The section payload of one operation (lines 140-151): every deleted line
\* prefixed "-", then every inserted line prefixed "+", each newline-ended.
OpContent(op, a, b) ==
    IF op.tag = "Equal" THEN <<>>
    ELSE Concat([k \in 1..op.old_len |-> <<"-">> \o ChangeToString(a[op.old_index + k])])
         \o Concat([k \in 1..op.new_len |-> <<"+">> \o ChangeToString(b[op.new_index + k])])

\* The anchor a section is keyed by (lines 153-179).
InsertAnchor(op) == op.new_index

OpAnchor(op) ==
    IF op.tag = "Insert" THEN InsertAnchor(op) ELSE op.old_index

RECURSIVE SectionsOf(_, _, _, _)
\* The BTreeMap built for one file by the loop over diff.ops(), started from acc.
SectionsOf(ops, a, b, acc) ==
    IF ops = <<>> THEN acc
    ELSE LET op == Head(ops)
         IN SectionsOf(Tail(ops), a, b,
                IF op.tag = "Equal" THEN acc
                ELSE MapInsert(acc, UsizeToString(OpAnchor(op)), OpContent(op, a, b)))

\* Line 129: the file is skipped when its working hash is the indexed one.
Unchanged(path) == Hash(working[path]) = index[path]

DiffSides(path, reverse) ==
    IF ~reverse THEN [old |-> stored[path], new |-> working[path]]
    ELSE [old |-> working[path], new |-> stored[path]]

\* PatchOf with the entry of a file created before its hash is compared.
PatchOfEager(ops, reverse) ==
    [p \in DOMAIN index |->
        IF p \in DOMAIN ops
        THEN SectionsOf(ops[p], TokenizeLines(DiffSides(p, reverse).old),
                        TokenizeLines(DiffSides(p, reverse).new), EmptyMap)
        ELSE EmptyMap]

\* patch.files after the loop over index.files, given the ops chosen per file:
\* an entry exists only once a section was inserted under it.
PatchOf(ops, reverse) ==
    LET secs(p) == SectionsOf(ops[p], TokenizeLines(DiffSides(p, reverse).old),
                              TokenizeLines(DiffSides(p, reverse).new), EmptyMap)
        present == {p \in DOMAIN ops : DOMAIN secs(p) # {}}
    IN [p \in present |-> secs(p)]

RECURSIVE OpsChoices(_, _)
\* Every assignment of a possible diff.ops() to each changed file.
OpsChoices(paths, reverse) ==
    IF paths = {} THEN {EmptyMap}
    ELSE LET p == CHOOSE x \in paths : TRUE
         IN {MapInsert(rest, p, o) :
                rest \in OpsChoices(paths \ {p}, reverse),
                o \in TextDiffOps(DiffSides(p, reverse).old, DiffSides(p, reverse).new)}

Diff(reverse) ==
    /\ status \in {"snapshot", "edited"}
    /\ LET changed == {p \in DOMAIN index : ~Unchanged(p)}
       IN \E ops \in OpsChoices(changed, reverse) :
            /\ diffops' = ops
            /\ diffOld' = [p \in changed |-> DiffSides(p, reverse).old]
            /\ diffNew' = [p \in changed |-> DiffSides(p, reverse).new]
            /\ patch' = PatchOf(ops, reverse)
    /\ patchKind' = "diff"
    /\ status' = "diffed"
    /\ UNCHANGED <<stored, working, index, actions, applyIn, snapVars>>

---------------------------------------------------------------------------
(* PatchSection::to_action_at *)

RECURSIVE PrefixedLines(_, _)
\* The lines that start with the prefix c, each without it (l[1..]).
PrefixedLines(ls, c) ==
    IF ls = <<>> THEN <<>>
    ELSE (IF StartsWith(Head(ls), c) THEN <<Tail(Head(ls))>> ELSE <<>>)
         \o PrefixedLines(Tail(ls), c)

ToActionAt(content, line) ==
    [at |-> line,
     remove |-> PrefixedLines(StrLines(content), "-"),
     insert |-> PrefixedLines(StrLines(content), "+")]

---------------------------------------------------------------------------
(* apply *)

\* Lines 198-203: the sections of one file in the map's iteration order.
SectionOrder(sections) == BTreeKeys(DOMAIN sections)

ActionsOf(sections) ==
    LET keys == SectionOrder(sections)
    IN [i \in 1..Len(keys) |-> ToActionAt(sections[keys[i]], ParseUsize(keys[i]))]

\* Line 212: file_content_iter.next().unwrap() while line_index < act.at.
\* True when the original has fewer than `need` lines left: unwrap panics.
CopyPanics(remaining, need) == need > remaining

RECURSIVE RunActions(_, _, _, _, _)
\* Lines 210-222.  pos: lines taken from file_content_iter so far.
RunActions(lines, acts, pos, file_new, line_index) ==
    IF acts = <<>> THEN [panic |-> FALSE, pos |-> pos, file_new |-> file_new]
    ELSE LET act == Head(acts)
             need == IF line_index < act.at THEN act.at - line_index ELSE 0
         IN IF CopyPanics(Len(lines) - pos, need)
            THEN [panic |-> TRUE, pos |-> pos, file_new |-> file_new]
            ELSE RunActions(lines, Tail(acts),
                     Min(Len(lines), pos + need + Len(act.remove)),
                     file_new \o SubSeq(lines, pos + 1, pos + need) \o act.insert,
                     line_index + need + Len(act.remove))

\* Lines 227-229: the empty last element that makes join end with a newline.
TrailingElement(file_content) ==
    IF EndsWithNewline(file_content) THEN <<(<<>>)>> ELSE <<>>

\* Lines 205-232 for one file: what is written, unless the loop panicked.
ApplyFile(file_content, acts) ==
    LET lines == StrLines(file_content)
        r == RunActions(lines, acts, 0, <<>>, 0)
    IN IF r.panic THEN [panic |-> TRUE, out |-> file_content]
       ELSE [panic |-> FALSE,
             out |-> Join(r.file_new \o SubSeq(lines, r.pos + 1, Len(lines))
                          \o TrailingElement(file_content))]

RECURSIVE Orders(_)
\* The orders in which a HashMap may be iterated.
Orders(S) ==
    IF S = {} THEN {<<>>}
    ELSE UNION {{<<x>> \o o : o \in Orders(S \ {x})} : x \in S}

RECURSIVE ApplyAll(_, _)
\* The loop over patch.files in the given order, from the state st.
ApplyAll(order, st) ==
    IF order = <<>> THEN st
    ELSE LET p == Head(order)
             acts == ActionsOf(patch[p])
         IN IF p \notin DOMAIN st.working
            THEN [st EXCEPT !.status = "error", !.actions = MapInsert(@, p, acts)]
            ELSE LET r == ApplyFile(st.working[p], acts)
                     nxt == [working |-> [st.working EXCEPT ![p] = r.out],
                             actions |-> MapInsert(st.actions, p, acts),
                             applyIn |-> MapInsert(st.applyIn, p, st.working[p]),
                             status |-> IF r.panic THEN "panic" ELSE "written"]
                 IN IF r.panic THEN nxt ELSE ApplyAll(Tail(order), nxt)

Apply ==
    /\ status \in {"diffed", "reversed", "restored", "crafted"}
    /\ \E order \in Orders(DOMAIN patch) :
         LET r == ApplyAll(order, [working |-> working, actions |-> EmptyMap,
                                   applyIn |-> EmptyMap, status |-> "written"])
         IN /\ working' = r.working
            /\ actions' = r.actions
            /\ applyIn' = r.applyIn
            /\ status' = r.status
    /\ UNCHANGED <<stored, index, patch, patchKind, diffOld, diffNew, diffops, snapVars>>

---------------------------------------------------------------------------
(* reverse *)

\* Lines 248-255: the inserted lines as removals, then the removed lines as
\* insertions, joined by newlines.
ReverseContent(act) ==
    Join([i \in 1..Len(act.insert) |-> <<"-">> \o act.insert[i]]
         \o [i \in 1..Len(act.remove) |-> <<"+">> \o act.remove[i]])

\* Line 256: the key the reversed section is stored under.
ReverseKey(act) == UsizeToString(act.at)

RECURSIVE ReverseSections(_, _, _)
\* Lines 243-257 for one file: keys is the iteration order still to do.
ReverseSections(sections, keys, acc) ==
    IF keys = <<>> THEN acc
    ELSE LET act == ToActionAt(sections[Head(keys)], ParseUsize(Head(keys)))
         IN ReverseSections(sections, Tail(keys),
                            MapInsert(acc, ReverseKey(act), ReverseContent(act)))

Reverse ==
    /\ status \in {"diffed", "crafted"}
    /\ patch' = [p \in DOMAIN patch |->
                    ReverseSections(patch[p], BTreeKeys(DOMAIN patch[p]), EmptyMap)]
    /\ patchKind' = IF patchKind = "diff" THEN "diff-reversed" ELSE "crafted-reversed"
    /\ status' = "reversed"
    /\ UNCHANGED <<stored, working, index, diffOld, diffNew, diffops, actions,
                   applyIn, snapVars>>

---------------------------------------------------------------------------
(* The user's own steps on the working tree *)

\* The user edits tracked files: each gets some text of at most n characters.
Edit(n) ==
    /\ status = "snapshot"
    /\ \E w \in [DOMAIN working -> Text(n)] :
         /\ w # working
         /\ working' = w
    /\ status' = "edited"
    /\ UNCHANGED <<stored, index, patch, patchKind, diffOld, diffNew, diffops,
                   actions, applyIn, snapVars>>

\* The stored copies are put back in place of the working files.
Restore ==
    /\ status = "diffed"
    /\ working' = stored
    /\ status' = "restored"
    /\ UNCHANGED <<stored, index, patch, patchKind, diffOld, diffNew, diffops,
                   actions, applyIn, snapVars>>

---------------------------------------------------------------------------
(* init: the snapshot walk                                                 *)
(*                                                                         *)
(* A path is the sequence of its components, "." first.  The tree maps     *)
(* each existing path to a directory or to a file with its data.           *)

Root == <<".">>
StoreRoot == <<".", ".qop", "store">>
IndexPath == <<".", ".qop", "index.toml">>

\* What a file holds: ordinary bytes, a .qopfile that parses (its ignore
\* list), or index.toml (its files map).
Data(type, bytes, ignore, files) ==
    [type |-> type, bytes |-> bytes, ignore |-> ignore, files |-> files]

Bytes(v) == Data("bytes", v, {}, EmptyMap)
QopFile(ignore) == Data("qopfile", "", ignore, EmptyMap)
IndexFile(files) == Data("index", "", {}, files)

DirNode == [kind |-> "dir", data |-> Bytes("")]
FileNode(data) == [kind |-> "file", data |-> data]

\* Path::starts_with: component-wise prefix.
StartsWithPath(p, q) == Len(q) <= Len(p) /\ SubSeq(p, 1, Len(q)) = q

\* Path::join: an absolute right-hand side replaces the left.
JoinPath(dir, x) == IF x # <<>> /\ x[1] = "/" THEN x ELSE dir \o x

\* Line 91: Path::new("./.qop/store").join(&rel_path), rel_path being "./...".
Mirror(p) == StoreRoot \o Tail(p)

Parent(p) == SubSeq(p, 1, Len(p) - 1)

\* std::fs::read_dir(dir), collected.
ReadDir(t, dir) == {p \in DOMAIN t : Len(p) = Len(dir) + 1 /\ StartsWithPath(p, dir)}

\* std::fs::remove_dir_all(dir), its error ignored.
RemoveDirAll(t, dir) ==
    [p \in {q \in DOMAIN t : ~StartsWithPath(q, dir)} |-> t[p]]

\* std::fs::create_dir_all(dir).
CreateDirAll(t, dir) ==
    [p \in DOMAIN t \cup {SubSeq(dir, 1, k) : k \in 1..Len(dir)} |->
        IF p \in DOMAIN t THEN t[p] ELSE DirNode]

\* Lines 106-107: the tree the walk starts from.
ClearedTree(t) == CreateDirAll(RemoveDirAll(t, StoreRoot), StoreRoot)

\* Lines 72-78: the directory's ignore patterns, joined to its path; a
\* .qopfile that does not parse is an error, one that cannot be read is none.
ReadManifest(t, dir) ==
    LET q == dir \o <<".qopfile">>
    IN IF q \in DOMAIN t /\ t[q].kind = "file"
       THEN IF t[q].data.type = "qopfile"
            THEN [ok |-> TRUE, ignore |-> {JoinPath(dir, x) : x \in t[q].data.ignore}]
            ELSE [ok |-> FALSE, ignore |-> {}]
       ELSE [ok |-> TRUE, ignore |-> {}]

\* IsIgnored with only the innermost list of the stack consulted.
IsIgnoredTopOnly(stack, d) ==
    \E pat \in stack[Len(stack)] : StartsWithPath(d, pat)

\* Lines 82-88: the entry starts with a pattern of some list on the stack.
IsIgnored(stack, d) ==
    \E i \in 1..Len(stack) : \E pat \in stack[i] : StartsWithPath(d, pat)

\* Line 101.
PopIgnore(stack) == SubSeq(stack, 1, Len(stack) - 1)

\* std::fs::create_dir(new_path) succeeds.
CanCreateDir(t, new_path) ==
    /\ new_path \notin DOMAIN t
    /\ Parent(new_path) \in DOMAIN t
    /\ t[Parent(new_path)].kind = "dir"
    /\ Len(new_path) <= MaxDepth

\* std::fs::copy(rel_path, new_path) succeeds.
CanCopyTo(t, new_path) ==
    /\ Parent(new_path) \in DOMAIN t
    /\ t[Parent(new_path)].kind = "dir"
    /\ new_path \in DOMAIN t => t[new_path].kind = "file"
    /\ Len(new_path) <= MaxDepth

WritePath(t, p, node) == [q \in DOMAIN t \cup {p} |-> IF q = p THEN node ELSE t[q]]

\* A frame of process_files: its path, the entries of `dir` not yet visited,
\* and its `files` map.
Frame(t, path) == [path |-> path, todo |-> ReadDir(t, path), files |-> EmptyMap]

SnapFail ==
    /\ frames' = <<>>
    /\ ignore_stack' = <<>>
    /\ snapPc' = "error"

\* init up to the first loop iteration of process_files("."): lines 106-112, 69-79.
SnapshotBegin ==
    /\ snapPc \in {"idle", "done", "error"}
    /\ runs < MaxRuns
    /\ runs' = runs + 1
    /\ pre' = fs
    /\ fs' = ClearedTree(fs)
    /\ LET m == ReadManifest(fs', Root)
       IN IF m.ok
          THEN /\ frames' = <<Frame(fs', Root)>>
               /\ ignore_stack' = <<m.ignore>>
               /\ snapPc' = "walking"
          ELSE SnapFail
    /\ UNCHANGED patchVars

\* One iteration of the loop at line 81, for the entry d; a directory's
\* iteration runs to the first iteration of the call it makes.
VisitEntry ==
    /\ snapPc = "walking"
    /\ LET n == Len(frames)
           top == frames[n]
       IN \E d \in top.todo :
            LET rest == [frames EXCEPT ![n].todo = @ \ {d}]
            IN IF IsIgnored(ignore_stack, d)
               THEN /\ frames' = rest
                    /\ UNCHANGED <<fs, ignore_stack, snapPc>>
               ELSE IF fs[d].kind = "dir"
               THEN IF CanCreateDir(fs, Mirror(d))
                    THEN /\ fs' = WritePath(fs, Mirror(d), DirNode)
                         /\ LET m == ReadManifest(fs', d)
                            IN IF m.ok
                               THEN /\ frames' = Append(rest, Frame(fs', d))
                                    /\ ignore_stack' = Append(ignore_stack, m.ignore)
                                    /\ snapPc' = "walking"
                               ELSE SnapFail
                    ELSE /\ SnapFail
                         /\ UNCHANGED fs
               ELSE IF CanCopyTo(fs, Mirror(d))
                    THEN /\ fs' = WritePath(fs, Mirror(d), fs[d])
                         /\ frames' = [rest EXCEPT ![n].files =
                                          MapInsert(@, d, Hash(fs[d].data))]
                         /\ UNCHANGED <<ignore_stack, snapPc>>
                    ELSE /\ SnapFail
                         /\ UNCHANGED fs
    /\ UNCHANGED <<pre, runs, patchVars>>

\* HashMap::extend.
Extend(m, other) ==
    [k \in DOMAIN m \cup DOMAIN other |-> IF k \in DOMAIN other THEN other[k] ELSE m[k]]

\* Lines 101-103 once the loop is over, and for the outermost call lines 109-116.
Return ==
    /\ snapPc = "walking"
    /\ LET n == Len(frames)
       IN /\ frames[n].todo = {}
          /\ ignore_stack' = PopIgnore(ignore_stack)
          /\ IF n > 1
             THEN /\ frames' = [SubSeq(frames, 1, n - 1) EXCEPT
                                   ![n - 1].files = Extend(@, frames[n].files)]
                  /\ UNCHANGED <<fs, snapPc>>
             ELSE /\ frames' = <<>>
                  /\ fs' = WritePath(fs, IndexPath, FileNode(IndexFile(frames[n].files)))
                  /\ snapPc' = "done"
    /\ UNCHANGED <<pre, runs, patchVars>>

---------------------------------------------------------------------------
(* Specifications *)

SnapIdle ==
    /\ fs = EmptyMap
    /\ pre = EmptyMap
    /\ frames = <<>>
    /\ ignore_stack = <<>>
    /\ snapPc = "idle"
    /\ runs = 0

\* The state a snapshot leaves: every tracked file copied and hashed.
Snapshotted(contents) ==
    /\ working = contents
    /\ stored = contents
    /\ index = [p \in DOMAIN contents |-> Hash(contents[p])]
    /\ diffOld = EmptyMap
    /\ diffNew = EmptyMap
    /\ diffops = EmptyMap
    /\ actions = EmptyMap
    /\ applyIn = EmptyMap

\* One tracked file: snapshot, edit, diff, reverse, restore, apply.
InitPatch ==
    /\ \E c \in [{"./f"} -> Text(MaxLen)] : Snapshotted(c)
    /\ patch = EmptyMap
    /\ patchKind = "none"
    /\ status = "snapshot"
    /\ SnapIdle

NextPatch ==
    \/ Edit(MaxLen)
    \/ Diff(FALSE)
    \/ Diff(TRUE)
    \/ Reverse
    \/ Restore
    \/ Apply

Spec == InitPatch /\ [][NextPatch]_vars

\* Two tracked files: snapshot, edits, diff.
InitMulti ==
    /\ \E c \in [{"./f", "./g"} -> Text(MaxLenMulti)] : Snapshotted(c)
    /\ patch = EmptyMap
    /\ patchKind = "none"
    /\ status = "snapshot"
    /\ SnapIdle

NextMulti ==
    \/ Edit(MaxLenMulti)
    \/ Diff(FALSE)
    \/ Diff(TRUE)

SpecMulti == InitMulti /\ [][NextMulti]_vars

\* A patch written by hand, applied to one file (apply takes any patch file).
AnchorKeys == {UsizeToString(n) : n \in 0..MaxAnchor}

SignedLines == {<<"-", "a", NL>>, <<"+", "a", NL>>, <<"-", NL>>, <<"+", NL>>}

CraftedSections ==
    UNION {[K -> SignedLines] :
              K \in {K \in SUBSET AnchorKeys : Cardinality(K) <= MaxSections}}

CraftedPatches == {EmptyMap} \cup {[p \in {"./f"} |-> sec] : sec \in CraftedSections}

ApplyContents == Text(MaxApplyLen) \cup {[i \in 1..n |-> NL] : n \in 0..MaxAnchor + 1}

InitApply ==
    /\ \E c \in [{"./f"} -> ApplyContents] : Snapshotted(c)
    /\ patch \in CraftedPatches
    /\ patchKind = "crafted"
    /\ status = "crafted"
    /\ SnapIdle

NextApply ==
    \/ Reverse
    \/ Apply

SpecApply == InitApply /\ [][NextApply]_vars

\* The patch engine at rest, while snapshots are taken.
PatchIdle ==
    /\ stored = EmptyMap
    /\ working = EmptyMap
    /\ index = EmptyMap
    /\ patch = EmptyMap
    /\ patchKind = "none"
    /\ diffOld = EmptyMap
    /\ diffNew = EmptyMap
    /\ diffops = EmptyMap
    /\ actions = EmptyMap
    /\ applyIn = EmptyMap
    /\ status = "none"

\* The working trees a snapshot is taken of: an optional file ./a, an
\* optional directory ./d with an optional file b and an optional directory
\* e holding an optional file c, and an optional .qopfile in each directory.
FileA == <<".", "a">>
DirD == <<".", "d">>
FileB == <<".", "d", "b">>
DirE == <<".", "d", "e">>
FileC == <<".", "d", "e", "c">>

TreeShapes ==
    {x \cup y : x \in {{}, {FileA}},
                y \in {{}, {DirD}, {DirD, FileB}, {DirD, DirE}, {DirD, DirE, FileC},
                       {DirD, FileB, DirE, FileC}}}

Malformed == Bytes("not toml")

NoManifest == Bytes("absent")

RootManifests ==
    {NoManifest, Malformed} \cup
    {QopFile(i) : i \in {{<<".qop">>}, {<<".qop", "store">>},
                         {<<".qop">>, <<"a">>}, {<<".qop">>, <<"d">>},
                         {<<".qop">>, <<"d", "e">>}, {<<".qop">>, <<"d", "e", "c">>}}}

DManifests ==
    {NoManifest, Malformed} \cup
    {QopFile(i) : i \in {{<<"b">>}, {<<"e">>}, {<<"..", "a">>}, {<<"/", "a">>}}}

EManifests == {NoManifest, QopFile({<<"c">>})}

\* The tree of a shape, with the given manifest in each of its directories.
TreeOf(shape, mr, md, me) ==
    LET manifests == {<<Root, mr>>, <<DirD, md>>, <<DirE, me>>}
        qopfiles == {m[1] \o <<".qopfile">> :
                        m \in {m \in manifests : /\ m[1] \in shape \cup {Root}
                                                 /\ m[2] # NoManifest}}
        manifestAt(q) == (CHOOSE m \in manifests : m[1] \o <<".qopfile">> = q)[2]
    IN [p \in {Root} \cup shape \cup qopfiles |->
           IF p \in qopfiles THEN FileNode(manifestAt(p))
           ELSE IF p \in {FileA, FileB, FileC} THEN FileNode(Bytes(p[Len(p)]))
           ELSE DirNode]

Trees ==
    {TreeOf(sh, mr, md, me) :
        sh \in TreeShapes, mr \in RootManifests, md \in DManifests, me \in EManifests}

InitSnap ==
    /\ fs \in Trees
    /\ pre = EmptyMap
    /\ frames = <<>>
    /\ ignore_stack = <<>>
    /\ snapPc = "idle"
    /\ runs = 0
    /\ PatchIdle

NextSnap ==
    \/ SnapshotBegin
    \/ VisitEntry
    \/ Return

SpecSnap == InitSnap /\ [][NextSnap]_vars

---------------------------------------------------------------------------
(* Claims *)

\* The diff of p is fixed by the two contents alone: one shortest script
\* exists, so it is what diff.ops() returned whatever the crate's choices.
Determined(p) == Cardinality(TextDiffOps(diffOld[p], diffNew[p])) = 1

\* Both sides of the diff of p are non-empty texts of newline-ended lines.
WholeLines(p) == EndsWithNewline(diffOld[p]) /\ EndsWithNewline(diffNew[p])

\* C1: a patch emitted by diff, applied to a file holding the old side of
\* that diff, leaves the file with the lines of the new side (checked on the
\* diffs the contents determine, between texts of newline-ended lines).
C1_ForwardRoundTrip ==
    ( /\ patchKind = "diff"
      /\ status \in {"written", "panic"}
      /\ \A p \in DOMAIN diffOld : Determined(p) /\ WholeLines(p)
      /\ \A p \in DOMAIN diffOld : p \in DOMAIN applyIn => applyIn[p] = diffOld[p] )
    => /\ status = "written"
       /\ \A p \in DOMAIN diffOld : StrLines(working[p]) = StrLines(diffNew[p])

\* C2: for P = diff(stored = A, working = B), reverse(P) applied to a file
\* holding B leaves the file with the lines of A (checked on the diffs the
\* contents determine, between texts of newline-ended lines).
C2_ReverseRoundTrip ==
    ( /\ patchKind = "diff-reversed"
      /\ status \in {"written", "panic"}
      /\ \A p \in DOMAIN diffNew : Determined(p) /\ WholeLines(p)
      /\ \A p \in DOMAIN diffNew : p \in DOMAIN applyIn => applyIn[p] = diffNew[p] )
    => /\ status = "written"
       /\ \A p \in DOMAIN diffNew : StrLines(working[p]) = StrLines(diffOld[p])

\* C3: when apply has rewritten a file, the actions it processed for that
\* file were in strictly ascending order of their numeric anchors.
C3_AscendingAnchors ==
    status = "written" =>
        \A p \in DOMAIN actions :
            \A i, j \in 1..Len(actions[p]) :
                i < j => actions[p][i].at < actions[p][j].at

\* C4: after diff, a file whose working hash is its indexed hash has no entry
\* in the patch, and no entry of the patch is without sections.
C4_UnchangedAbsent ==
    status = "diffed" =>
        /\ \A p \in DOMAIN index : Hash(working[p]) = index[p] => p \notin DOMAIN patch
        /\ \A p \in DOMAIN patch : DOMAIN patch[p] # {}

\* C4 witness: diff has run on a tree with one file unchanged and one changed.
C4_Witness ==
    /\ status = "diffed"
    /\ \E p \in DOMAIN index : Hash(working[p]) = index[p]
    /\ \E p \in DOMAIN index : p \in DOMAIN patch

\* C6: the content apply writes ends with a newline exactly when the content
\* it read did.
C6_TrailingNewlineKept ==
    status = "written" =>
        \A p \in DOMAIN applyIn :
            EndsWithNewline(working[p]) <=> EndsWithNewline(applyIn[p])

\* C8: apply never fails hard on an action whose anchor lies beyond the lines
\* the original has left.
C8_NoHardFailure == status # "panic"

\* C9: the sections recorded for a file are as many as the non-equal
\* operations of its diff (checked on the diffs the contents determine).
NonEqual(ops) == {i \in 1..Len(ops) : ops[i].tag # "Equal"}

C9_OneSectionPerOp ==
    patchKind = "diff" =>
        \A p \in DOMAIN diffops :
            Determined(p) =>
                Cardinality(NonEqual(diffops[p]))
                    = (IF p \in DOMAIN patch THEN Cardinality(DOMAIN patch[p]) ELSE 0)

\* The entry p of tree t has as prefix a pattern of the manifest of its own
\* directory or of a directory above it.
Excluded(t, p) ==
    \E k \in 1..Len(p) - 1 :
        LET dir == SubSeq(p, 1, k)
            m == ReadManifest(t, dir)
        IN \E pat \in m.ignore : StartsWithPath(p, pat)

\* index.files as the index file of tree t records it.
IndexFiles(t) == t[IndexPath].data.files

\* The paths recorded so far by the running walk.
Recorded == UNION {DOMAIN frames[i].files : i \in 1..Len(frames)}

\* C5: of the tree the walk starts from, an entry excluded by the manifest of
\* its directory or of any directory above it never reaches the store or the
\* index, and when the snapshot ends every other file is in both.
C5_IgnoreComposition ==
    snapPc \in {"walking", "done", "error"} =>
        LET t == ClearedTree(pre)
        IN /\ \A p \in DOMAIN t :
                Excluded(t, p) =>
                    /\ Mirror(p) \notin DOMAIN fs
                    /\ p \notin Recorded
                    /\ snapPc = "done" => p \notin DOMAIN IndexFiles(fs)
           /\ snapPc = "done" =>
                \A p \in DOMAIN t :
                    (t[p].kind = "file" /\ ~Excluded(t, p)) =>
                        /\ p \in DOMAIN IndexFiles(fs)
                        /\ Mirror(p) \in DOMAIN fs

\* C5 witness: a snapshot has ended on a tree where the root's manifest
\* excludes a file two directories down and another file is kept.
C5_Witness ==
    /\ snapPc = "done"
    /\ FileC \in DOMAIN pre
    /\ \E pat \in ReadManifest(pre, Root).ignore : StartsWithPath(FileC, pat)
    /\ FileC \notin DOMAIN IndexFiles(fs)
    /\ FileB \in DOMAIN IndexFiles(fs)

\* C7: a snapshot that follows a completed snapshot, the tree untouched in
\* between, writes the same index.files.
C7_SnapshotIdempotent ==
    (snapPc = "done" /\ IndexPath \in DOMAIN pre) =>
        IndexFiles(fs) = IndexFiles(pre)

\* C10: the walk recurses only into directories that existed before the
\* snapshot began.
C10_WalkStaysInTree ==
    snapPc = "walking" =>
        \A i \in 1..Len(frames) : frames[i].path \in DOMAIN pre

====
